---------------------------- MODULE Spec2Model ----------------------------
(***************************************************************************)
(* setuptools/msvc.py: locating the Microsoft Visual C++ toolchain and     *)
(* building the environment that activates it.                             *)
(*                                                                         *)
(* Python strings are sequences of one-character strings, so that lower(), *)
(* the `in` substring test, partition(), splitlines() and format() are     *)
(* computed character by character.  None is the one-element sequence      *)
(* <<"None">>, which no string equals.  The registry, the file system, the *)
(* process environment and the outcomes of the external programs           *)
(* (vswhere.exe, cmd, the unpatched distutils functions) are the state the *)
(* module reads; a call of one of its functions is one action.             *)
(***************************************************************************)
EXTENDS Integers, Sequences, FiniteSets, TLC

VARIABLES
    environ,    \* os.environ on Windows: <<NAME, value>> items, names distinct
    plat_spec,  \* the plat_spec argument
    version,    \* the version argument of the msvc9 functions, in tenths
    registry,   \* [vc7: the SxS\VC7 key, vcforpython: the VCForPython keys]
    fs,         \* [dirs: isdir, files: isfile, redist: what glob lists]
    procs,      \* outcomes of vswhere.exe, cmd and the unpatched functions
    pc,         \* "ready" before the call, "done" after it
    op,         \* the function that was called
    result,     \* what the call returned or raised
    effects     \* the external calls the function made, in order

vars == <<environ, plat_spec, version, registry, fs, procs, pc, op, result,
          effects>>

---------------------------------------------------------------------------
(* Strings *)

None == <<"None">>

UpperCase ==
    <<"A","B","C","D","E","F","G","H","I","J","K","L","M",
      "N","O","P","Q","R","S","T","U","V","W","X","Y","Z">>

LowerCase ==
    <<"a","b","c","d","e","f","g","h","i","j","k","l","m",
      "n","o","p","q","r","s","t","u","v","w","x","y","z">>

\* str.lower() / str.upper(), one character
lower_char(c) ==
    IF \E i \in DOMAIN UpperCase : UpperCase[i] = c
    THEN LowerCase[CHOOSE i \in DOMAIN UpperCase : UpperCase[i] = c]
    ELSE c

upper_char(c) ==
    IF \E i \in DOMAIN LowerCase : LowerCase[i] = c
    THEN UpperCase[CHOOSE i \in DOMAIN LowerCase : LowerCase[i] = c]
    ELSE c

lower(s) == [i \in 1..Len(s) |-> lower_char(s[i])]

upper(s) == [i \in 1..Len(s) |-> upper_char(s[i])]

\* Python's `sub in s` for strings
Contains(sub, s) ==
    \E i \in 0..(Len(s) - Len(sub)) : SubSeq(s, i + 1, i + Len(sub)) = sub

StartsWith(s, prefix) ==
    Len(s) >= Len(prefix) /\ SubSeq(s, 1, Len(prefix)) = prefix

EndsWith(s, suffix) ==
    Len(s) >= Len(suffix)
    /\ SubSeq(s, Len(s) - Len(suffix) + 1, Len(s)) = suffix

\* truth value of a str-or-None: None and "" are false
Truthy(x) == x # None /\ x # <<>>

\* os.path.join (ntpath) of two relative components
join(a, b) ==
    IF a = <<>> THEN b
    ELSE IF a[Len(a)] \in {"\\", "/", ":"} THEN a \o b
    ELSE a \o <<"\\">> \o b

join3(a, b, c) == join(join(a, b), c)

Digit(n) == <<"0","1","2","3","4","5","6","7","8","9">>[n + 1]

RECURSIVE Decimal(_)
Decimal(n) == IF n < 10 THEN <<Digit(n)>> ELSE Decimal(n \div 10) \o <<Digit(n % 10)>>

\* '{version:0.1f}'.format(...) of a version given in tenths
format_0_1f(v) == Decimal(v \div 10) \o <<".">> \o <<Digit(v % 10)>>

---------------------------------------------------------------------------
(* String constants of msvc.py *)

\* "DISTUTILS_USE_SDK"
DISTUTILS_USE_SDK ==
    <<"D","I","S","T","U","T","I","L","S","_","U","S","E","_","S","D","K">>
\* "ProgramFiles(x86)"
ProgramFilesX86 ==
    <<"P","r","o","g","r","a","m","F","i","l","e","s","(","x","8","6",")">>
\* "ProgramFiles"
ProgramFiles ==
    <<"P","r","o","g","r","a","m","F","i","l","e","s">>
\* "vcvarsall.bat"
vcvarsall_bat ==
    <<"v","c","v","a","r","s","a","l","l",".","b","a","t">>
\* "vcruntime140.dll"
vcruntime140_dll ==
    <<"v","c","r","u","n","t","i","m","e","1","4","0",".","d","l","l">>
\* "Microsoft.VC140.CRT"
Microsoft_VC140_CRT ==
    <<"M","i","c","r","o","s","o","f","t",".","V","C","1","4","0",".","C","R",
      "T">>
\* "Microsoft.VC14", the part of "Microsoft.VC14*.CRT" before the star
Microsoft_VC14 ==
    <<"M","i","c","r","o","s","o","f","t",".","V","C","1","4">>
\* ".CRT", the part of "Microsoft.VC14*.CRT" after the star
dot_CRT ==
    <<".","C","R","T">>
\* "py_vcruntime_redist"
py_vcruntime_redist ==
    <<"p","y","_","v","c","r","u","n","t","i","m","e","_","r","e","d","i","s",
      "t">>
\* "amd64"
amd64 ==
    <<"a","m","d","6","4">>
\* "x86"
x86 ==
    <<"x","8","6">>
\* "x64"
x64 ==
    <<"x","6","4">>
\* "arm"
arm ==
    <<"a","r","m">>
\* "arm64"
arm64 ==
    <<"a","r","m","6","4">>
\* "x86_amd64"
x86_amd64 ==
    <<"x","8","6","_","a","m","d","6","4">>
\* "x86_arm"
x86_arm ==
    <<"x","8","6","_","a","r","m">>
\* "x86_arm64"
x86_arm64 ==
    <<"x","8","6","_","a","r","m","6","4">>
\* "Unable to find vcvarsall.bat"
Unable_to_find_vcvarsall ==
    <<"U","n","a","b","l","e"," ","t","o"," ","f","i","n","d"," ","v","c","v",
      "a","r","s","a","l","l",".","b","a","t">>
\* "Error executing "
Error_executing ==
    <<"E","r","r","o","r"," ","e","x","e","c","u","t","i","n","g"," ">>
\* "vcvarsall"
vcvarsall_word ==
    <<"v","c","v","a","r","s","a","l","l">>
\* "visual c"
visual_c_word ==
    <<"v","i","s","u","a","l"," ","c">>
\* 'Microsoft Visual C++ '
Microsoft_Visual_Cpp ==
    <<"M","i","c","r","o","s","o","f","t"," ","V","i","s","u","a","l"," ","C",
      "+","+"," ">>
\* ' is required.'
is_required ==
    <<" ","i","s"," ","r","e","q","u","i","r","e","d",".">>
\* ' Get it from http://aka.ms/vcpython27'
Get_it_from_vcpython27 ==
    <<" ","G","e","t"," ","i","t"," ","f","r","o","m"," ","h","t","t","p",":",
      "/","/","a","k","a",".","m","s","/","v","c","p","y","t","h","o","n","2",
      "7">>
\* ' Get it with "Build Tools for Visual Studio": https://visualstudio.microsoft.com/downloads/'
Get_it_with_Build_Tools ==
    <<" ","G","e","t"," ","i","t"," ","w","i","t","h"," ","\"","B","u","i",
      "l","d"," ","T","o","o","l","s"," ","f","o","r"," ","V","i","s","u","a",
      "l"," ","S","t","u","d","i","o","\"",":"," ","h","t","t","p","s",":",
      "/","/","v","i","s","u","a","l","s","t","u","d","i","o",".","m","i","c",
      "r","o","s","o","f","t",".","c","o","m","/","d","o","w","n","l","o","a",
      "d","s","/">>

\* 'cmd /u /c "'
cmd_u_c_quote ==
    <<"c","m","d"," ","/","u"," ","/","c"," ","\"">>
\* '" '
quote_space ==
    <<"\""," ">>
\* ' && set'
and_set ==
    <<" ","&","&"," ","s","e","t">>
\* "VC", "Auxiliary", "Build"
VC_Auxiliary_Build ==
    <<"V","C","\\","A","u","x","i","l","i","a","r","y","\\","B","u","i","l",
      "d">>
\* "..", "..", "redist", "MSVC"
up_up_redist_MSVC ==
    <<".",".","\\",".",".","\\","r","e","d","i","s","t","\\","M","S","V","C">>
\* "redist"
redist_word ==
    <<"r","e","d","i","s","t">>
\* r'Software\%sMicrosoft\DevDiv\VCForPython\%0.1f', split at its two fields
vc_base_1 ==
    <<"S","o","f","t","w","a","r","e","\\">>
\* 'Microsoft\DevDiv\VCForPython\'
vc_base_2 ==
    <<"M","i","c","r","o","s","o","f","t","\\","D","e","v","D","i","v","\\",
      "V","C","F","o","r","P","y","t","h","o","n","\\">>
\* 'Wow6432Node\\'
Wow6432Node ==
    <<"W","o","w","6","4","3","2","N","o","d","e","\\">>

---------------------------------------------------------------------------
(* What a call gives back *)

\* the int-or-None first element of (None, None)
NoneVersion == -1

Return(v, eff) ==
    [kind |-> "return", value |-> v, message |-> None, effects |-> eff]

Raise(exc, msg, eff) ==
    [kind |-> exc, value |-> None, message |-> msg, effects |-> eff]

DistutilsPlatformError == "DistutilsPlatformError"

NameError == "NameError"

---------------------------------------------------------------------------
(* The environment, the file system, the registry *)

\* os.environ on Windows keeps names upper-cased and looks them up so
environ_has(name) == \E i \in DOMAIN environ : environ[i][1] = upper(name)

environ_get(name) ==
    IF environ_has(name)
    THEN environ[CHOOSE i \in DOMAIN environ : environ[i][1] = upper(name)][2]
    ELSE None

isfile(path) == path \in fs.files

isdir(path) == path \in fs.dirs

Whitespace == {" ", "\t", "\n", "\r"}

RECURSIVE lstrip(_)
lstrip(s) ==
    IF s # <<>> /\ Head(s) \in Whitespace THEN lstrip(Tail(s)) ELSE s

RECURSIVE rstrip(_)
rstrip(s) ==
    IF s # <<>> /\ s[Len(s)] \in Whitespace
    THEN rstrip(SubSeq(s, 1, Len(s) - 1))
    ELSE s

strip(s) == rstrip(lstrip(s))

\* the path of a redistributable the file system lists under best_dir
RedistPath(best_dir, e) ==
    LET base  == join(best_dir, up_up_redist_MSVC)
        under == IF e.sub = <<>> THEN base ELSE join(base, e.sub)
    IN  join(join3(under, e.plat, e.crt), vcruntime140_dll)

\* fnmatch of a directory name against "Microsoft.VC14*.CRT"
MatchesCRT(name) ==
    /\ Len(name) >= Len(Microsoft_VC14) + Len(dot_CRT)
    /\ StartsWith(name, Microsoft_VC14)
    /\ EndsWith(name, dot_CRT)

\* glob.glob(join(best_dir, "..", "..", "redist", "MSVC", "**",
\*                vcruntime_plat, "Microsoft.VC14*.CRT", "vcruntime140.dll"),
\*           recursive=True), in the order the file system lists the matches
glob(best_dir, plat) ==
    LET hits == SelectSeq(fs.redist.list,
                          LAMBDA e : e.plat = plat /\ MatchesCRT(e.crt))
    IN  [i \in 1..Len(hits) |-> RedistPath(best_dir, hits[i])]

---------------------------------------------------------------------------
(* msvc.py.  A function whose body uses an intermediate value several     *)
(* times is written as a chain of operators, each taking the value as a   *)
(* parameter, in the order of the source lines.                           *)

\* Python's `a or b` on str-or-None
py_or(a, b) == IF Truthy(a) THEN a ELSE b

\* Reg.get_value(key, "installdir") raises KeyError for an absent key
Reg_has(key) == key \in DOMAIN registry.vcforpython

Reg_get_value(key) == registry.vcforpython[key]

\* lines 77-88
msvc9_productdir(key1, key2) ==
    IF Reg_has(key1) THEN Reg_get_value(key1)
    ELSE IF Reg_has(key2) THEN Reg_get_value(key2)
    ELSE None

\* line 95
msvc9_find_vcvarsall_unpatched ==
    IF procs.unpatched.kind = "return"
    THEN Return(procs.unpatched.value, <<"Reg.get_value", "unpatched">>)
    ELSE Raise(procs.unpatched.kind, procs.unpatched.message,
               <<"Reg.get_value", "unpatched">>)

\* lines 90-95
msvc9_check_productdir(productdir) ==
    IF Truthy(productdir) /\ isfile(join(productdir, vcvarsall_bat))
    THEN Return(join(productdir, vcvarsall_bat), <<"Reg.get_value">>)
    ELSE msvc9_find_vcvarsall_unpatched

msvc9_find_vcvarsall(ver) ==
    msvc9_check_productdir(
        msvc9_productdir(
            vc_base_1 \o vc_base_2 \o format_0_1f(ver),
            vc_base_1 \o Wow6432Node \o vc_base_2 \o format_0_1f(ver)))

\* variant: 14.0 itself is not a modern family
special_message_above_14(tmpl, ver) ==
    IF ver = 90 THEN tmpl \o Get_it_from_vcpython27
    ELSE IF ver > 140 THEN tmpl \o Get_it_with_Build_Tools
    ELSE tmpl

\* lines 311-322
special_message(tmpl, ver) ==
    IF ver = 90 THEN tmpl \o Get_it_from_vcpython27
    ELSE IF ver >= 140 THEN tmpl \o Get_it_with_Build_Tools
    ELSE tmpl

\* lines 307-309
mentions_msvc(lowered) ==
    Contains(vcvarsall_word, lowered) \/ Contains(visual_c_word, lowered)

_augment_exception(message, ver) ==
    IF mentions_msvc(lower(message))
    THEN special_message(Microsoft_Visual_Cpp \o format_0_1f(ver) \o is_required,
                         ver)
    ELSE message

msvc9_query_vcvarsall(ver) ==
    IF procs.unpatched.kind = DistutilsPlatformError
    THEN Raise(DistutilsPlatformError,
               _augment_exception(procs.unpatched.message, ver),
               <<"unpatched">>)
    ELSE IF procs.unpatched.kind = "return"
    THEN Return(procs.unpatched.value, <<"unpatched">>)
    ELSE Raise(procs.unpatched.kind, procs.unpatched.message, <<"unpatched">>)

\* OpenKeyEx fails with OSError for an absent key.  For a key that opens,
\* line 123 evaluates itertools.count(), and the module binds only the name
\* count (line 17): NameError, before the first EnumValue.
_msvc14_find_vc2015 ==
    IF ~registry.vc7.exists
    THEN Return([version |-> NoneVersion, dir |-> None], <<"OpenKeyEx">>)
    ELSE Raise(NameError, None, <<"OpenKeyEx">>)

\* lines 166-170
vc2017_isdir(path) ==
    IF isdir(path)
    THEN Return([version |-> 15, dir |-> path], <<"vswhere.exe">>)
    ELSE Return([version |-> NoneVersion, dir |-> None], <<"vswhere.exe">>)

\* lines 151-164
vc2017_vswhere(root) ==
    IF ~Truthy(root)
    THEN Return([version |-> NoneVersion, dir |-> None], <<>>)
    ELSE IF procs.vswhere.kind # "output"
    THEN Return([version |-> NoneVersion, dir |-> None], <<"vswhere.exe">>)
    ELSE vc2017_isdir(join(strip(procs.vswhere.out), VC_Auxiliary_Build))

_msvc14_find_vc2017 ==
    vc2017_vswhere(py_or(environ_get(ProgramFilesX86), environ_get(ProgramFiles)))

PLAT_SPEC_TO_RUNTIME(spec) ==
    CASE spec = x86       -> x86
      [] spec = x86_amd64 -> x64
      [] spec = x86_arm   -> arm
      [] spec = x86_arm64 -> arm64

\* variant: "amd" instead of "amd64"
vcruntime_plat_amd(spec) ==
    IF spec \in {x86, x86_amd64, x86_arm, x86_arm64}
    THEN PLAT_SPEC_TO_RUNTIME(spec)
    ELSE IF Contains(<<"a", "m", "d">>, spec) THEN x64 ELSE x86

\* lines 186-189
vcruntime_plat(spec) ==
    IF spec \in {x86, x86_amd64, x86_arm, x86_arm64}
    THEN PLAT_SPEC_TO_RUNTIME(spec)
    ELSE IF Contains(amd64, spec) THEN x64 ELSE x86

\* lines 195-199: the last match of the glob, None without one
glob_last(hits) ==
    IF fs.redist.kind = "OSError" \/ hits = <<>> THEN None
    ELSE hits[Len(hits)]

\* variant: the redistributable is not checked to be a file
check_vcruntime_no_isfile(vcvarsall, vcruntime, eff) ==
    IF ~Truthy(vcruntime)
    THEN Return(<<vcvarsall, None>>, eff)
    ELSE Return(<<vcvarsall, vcruntime>>, eff)

\* lines 214-217
check_vcruntime(vcvarsall, vcruntime, eff) ==
    IF ~Truthy(vcruntime) \/ ~isfile(vcruntime)
    THEN Return(<<vcvarsall, None>>, eff)
    ELSE Return(<<vcvarsall, vcruntime>>, eff)

\* variant: the script is not checked to be a file
check_vcvarsall_no_isfile(vcvarsall, vcruntime, eff) ==
    check_vcruntime(vcvarsall, vcruntime, eff)

\* lines 210-212
check_vcvarsall(vcvarsall, vcruntime, eff) ==
    IF ~isfile(vcvarsall) THEN Return(<<None, None>>, eff)
    ELSE check_vcruntime(vcvarsall, vcruntime, eff)

\* lines 207-210
check_best_dir(best_dir, vcruntime, eff) ==
    IF ~Truthy(best_dir) THEN Return(<<None, None>>, eff)
    ELSE check_vcvarsall(join(best_dir, vcvarsall_bat), vcruntime, eff)

\* lines 202-205
use_vc2015(plat, r2015, eff) ==
    IF r2015.kind # "return" THEN Raise(r2015.kind, r2015.message, eff)
    ELSE check_best_dir(
             r2015.value.dir,
             IF r2015.value.version \notin {NoneVersion, 0}
             THEN join(join(join3(r2015.value.dir, redist_word, plat),
                            Microsoft_VC140_CRT), vcruntime140_dll)
             ELSE None,
             eff)

\* lines 191-201
use_vc2017(plat, r2017) ==
    IF Truthy(r2017.value.dir)
    THEN check_best_dir(r2017.value.dir,
                        glob_last(glob(r2017.value.dir, plat)),
                        r2017.effects \o <<"glob">>)
    ELSE use_vc2015(plat, _msvc14_find_vc2015,
                    r2017.effects \o <<"OpenKeyEx">>)

_msvc14_find_vcvarsall(spec) == use_vc2017(vcruntime_plat(spec), _msvc14_find_vc2017)

\* str.splitlines(): "\n", "\r\n" and "\r" end a line; no empty last line
RECURSIVE splitlines_from(_, _, _)
splitlines_from(s, i, line) ==
    IF i > Len(s) THEN (IF line = <<>> THEN <<>> ELSE <<line>>)
    ELSE IF s[i] = "\r" /\ i < Len(s) /\ s[i + 1] = "\n"
    THEN <<line>> \o splitlines_from(s, i + 2, <<>>)
    ELSE IF s[i] \in {"\n", "\r"}
    THEN <<line>> \o splitlines_from(s, i + 1, <<>>)
    ELSE splitlines_from(s, i + 1, Append(line, s[i]))

splitlines(s) == splitlines_from(s, 1, <<>>)

\* the index of the first '=' of a line that has one
first_eq(line) ==
    CHOOSE j \in DOMAIN line :
        line[j] = "=" /\ \A k \in 1..(j - 1) : line[k] # "="

\* line.partition('='): <<before, sep, after>> at the first '='
partition(line) ==
    IF \E i \in DOMAIN line : line[i] = "="
    THEN <<SubSeq(line, 1, first_eq(line) - 1), <<"=">>,
           SubSeq(line, first_eq(line) + 1, Len(line))>>
    ELSE <<line, <<>>, <<>>>>

\* the index of the last item of a key
last_item(items, k) ==
    CHOOSE i \in DOMAIN items :
        items[i][1] = k /\ \A j \in DOMAIN items : items[j][1] = k => j <= i

\* a dict built from <<key, value>> items in order: a later item replaces
\* an earlier one of the same key
dict(items) ==
    [k \in {items[i][1] : i \in DOMAIN items} |-> items[last_item(items, k)][2]]

\* variant: a line with an empty value is kept
key_only(p) == p[1] # <<>>

\* line 248: if key and value
key_and_value(p) == p[1] # <<>> /\ p[3] # <<>>

\* lines 245-246
lowered_items(kept) ==
    [i \in DOMAIN kept |-> <<lower(kept[i][1]), kept[i][3]>>]

\* line 247
partitions(lines) == [i \in DOMAIN lines |-> partition(lines[i])]

\* lines 244-249
parse_env(out) ==
    dict(lowered_items(SelectSeq(partitions(splitlines(out)), key_and_value)))

\* lines 223-226
lowered_environ ==
    dict([i \in DOMAIN environ |-> <<lower(environ[i][1]), environ[i][2]>>])

\* lines 251-253
set_vcruntime(env, vcruntime) ==
    IF Truthy(vcruntime)
    THEN [k \in DOMAIN env \cup {py_vcruntime_redist} |->
             IF k = py_vcruntime_redist THEN vcruntime ELSE env[k]]
    ELSE env

\* lines 234-253
run_vcvarsall(spec, vcvarsall, vcruntime, eff) ==
    IF procs.cmd.kind = "CalledProcessError"
    THEN Raise(DistutilsPlatformError,
               Error_executing \o cmd_u_c_quote \o vcvarsall \o quote_space
                   \o spec \o and_set,
               eff)
    ELSE Return(set_vcruntime(parse_env(procs.cmd.out), vcruntime), eff)

\* lines 228-232
use_vcvarsall(spec, found) ==
    IF found.kind # "return" THEN found
    ELSE IF ~Truthy(found.value[1])
    THEN Raise(DistutilsPlatformError, Unable_to_find_vcvarsall, found.effects)
    ELSE run_vcvarsall(spec, found.value[1], found.value[2],
                       found.effects \o <<"cmd">>)

\* variant: the override marker is not looked at
_msvc14_get_vc_env_no_override(spec) ==
    use_vcvarsall(spec, _msvc14_find_vcvarsall(spec))

_msvc14_get_vc_env(spec) ==
    IF environ_has(DISTUTILS_USE_SDK) THEN Return(lowered_environ, <<>>)
    ELSE use_vcvarsall(spec, _msvc14_find_vcvarsall(spec))

\* lines 281-285
set_environment_directly(synth) ==
    IF synth.kind = DistutilsPlatformError
    THEN Raise(DistutilsPlatformError, _augment_exception(synth.message, 140),
               <<"unpatched">> \o synth.effects)
    ELSE [synth EXCEPT !.effects = <<"unpatched">> \o @]

msvc14_get_vc_env(spec) ==
    IF procs.unpatched.kind = "return"
    THEN Return(procs.unpatched.value, <<"unpatched">>)
    ELSE IF procs.unpatched.kind # DistutilsPlatformError
    THEN Raise(procs.unpatched.kind, procs.unpatched.message, <<"unpatched">>)
    ELSE set_environment_directly(_msvc14_get_vc_env(spec))

---------------------------------------------------------------------------
(* The hosts the functions are called on *)

\* "DUMMY"
DUMMY ==
    <<"D","U","M","M","Y">>
\* "1"
one_str ==
    <<"1">>
\* "C:\PF86"
PF86_Dir ==
    <<"C",":","\\","P","F","8","6">>
\* "C:\PF"
PF_Dir ==
    <<"C",":","\\","P","F">>
\* "C:\VS\r\n", what vswhere.exe prints for an installation at C:\VS
vswhere_VS ==
    <<"C",":","\\","V","S","\r","\n">>
\* "C:\VS\VC\Auxiliary\Build"
BuildDir ==
    <<"C",":","\\","V","S","\\","V","C","\\","A","u","x","i","l","i","a","r",
      "y","\\","B","u","i","l","d">>
\* "C:\VC14\", "C:\VC15\": directories the VC7 key names
VC14Dir ==
    <<"C",":","\\","V","C","1","4","\\">>
VC15Dir ==
    <<"C",":","\\","V","C","1","5","\\">>
\* "C:\VCPy": the VCForPython installdir
VCPyDir ==
    <<"C",":","\\","V","C","P","y">>
\* registry value names of the VC7 key
v10_0 ==
    <<"1","0",".","0">>
v13_0 ==
    <<"1","3",".","0">>
v14_0 ==
    <<"1","4",".","0">>
v15_0 ==
    <<"1","5",".","0">>
bogus ==
    <<"b","o","g","u","s">>
\* redistributable directories
v14_16 ==
    <<"1","4",".","1","6">>
v14_28 ==
    <<"1","4",".","2","8">>
Microsoft_VC141_CRT ==
    <<"M","i","c","r","o","s","o","f","t",".","V","C","1","4","1",".","C","R",
      "T">>
Microsoft_VC142_CRT ==
    <<"M","i","c","r","o","s","o","f","t",".","V","C","1","4","2",".","C","R",
      "T">>
Microsoft_VC142_OpenMP ==
    <<"M","i","c","r","o","s","o","f","t",".","V","C","1","4","2",".","O","p",
      "e","n","M","P">>
\* what cmd prints
out_plain ==
    <<"P","A","T","H","=","C",":","\\","b","i","n","\r","\n","I","n","c","l",
      "u","d","e","=","C",":","\\","i","n","c","\r","\n">>
out_redist ==
    <<"P","a","t","h","=","C",":","\\","b","i","n","\r","\n","P","Y","_","V",
      "C","R","U","N","T","I","M","E","_","R","E","D","I","S","T","=","C",":",
      "\\","o","l","d",".","d","l","l","\r","\n">>
\* the environment the unpatched _get_vc_env returns
out_unpatched ==
    <<"p","a","t","h","=","C",":","\\","u","n","p","a","t","c","h","e","d">>

MarkerItems == {<<>>, <<<<DISTUTILS_USE_SDK, one_str>>>>}

ProgramFilesItems ==
    { <<>>,
      <<<<upper(ProgramFiles), PF_Dir>>>>,
      <<<<upper(ProgramFilesX86), PF86_Dir>>, <<upper(ProgramFiles), PF_Dir>>>>,
      <<<<upper(ProgramFilesX86), <<>>>>, <<upper(ProgramFiles), PF_Dir>>>> }

Environs ==
    { <<<<DUMMY, one_str>>>> \o pf \o m : pf \in ProgramFilesItems,
                                         m \in MarkerItems }

VswhereOutcomes ==
    { [kind |-> "OSError", out |-> <<>>],
      [kind |-> "output", out |-> <<>>],
      [kind |-> "output", out |-> vswhere_VS] }

CmdOutcomes ==
    { [kind |-> "CalledProcessError", out |-> <<>>],
      [kind |-> "output", out |-> out_plain],
      [kind |-> "output", out |-> out_redist] }

NoUnpatched == [kind |-> "return", value |-> None, message |-> None]

UnpatchedGetVcEnv ==
    { [kind |-> "return", value |-> parse_env(out_unpatched), message |-> None],
      [kind |-> DistutilsPlatformError, value |-> None,
       message |-> Unable_to_find_vcvarsall] }

RedistX64Old ==
    [sub |-> v14_16, plat |-> x64, crt |-> Microsoft_VC141_CRT, isfile |-> TRUE]

RedistX64New ==
    [sub |-> v14_28, plat |-> x64, crt |-> Microsoft_VC142_CRT, isfile |-> FALSE]

RedistX86 ==
    [sub |-> <<>>, plat |-> x86, crt |-> Microsoft_VC142_CRT, isfile |-> TRUE]

RedistOpenMP ==
    [sub |-> v14_28, plat |-> x86, crt |-> Microsoft_VC142_OpenMP, isfile |-> TRUE]

Redists ==
    { [kind |-> "OSError", list |-> <<>>],
      [kind |-> "ok", list |-> <<>>],
      [kind |-> "ok", list |-> <<RedistX64Old, RedistOpenMP>>],
      [kind |-> "ok", list |-> <<RedistX64Old, RedistX64New, RedistX86>>],
      [kind |-> "ok", list |-> <<RedistX64New, RedistX86, RedistX64Old>>] }

RedistFiles(r) ==
    { RedistPath(BuildDir, r.list[i]) : i \in {j \in DOMAIN r.list : r.list[j].isfile} }

FileSystems(dirsets, scripts) ==
    { [dirs |-> d, files |-> f \cup RedistFiles(r), redist |-> r] :
        d \in dirsets, f \in SUBSET scripts, r \in Redists }

VC7Entry(name, dir, type) == [name |-> name, data |-> dir, type |-> type]

NoVC7 == [exists |-> FALSE, values |-> <<>>]

NoVCForPython == [k \in {} |-> None]

Registries(vc7s) == { [vc7 |-> k, vcforpython |-> NoVCForPython] : k \in vc7s }

NoResult == [kind |-> "none", value |-> None, message |-> None]

Ready ==
    /\ pc = "ready"
    /\ op = "none"
    /\ result = NoResult
    /\ effects = <<>>

\* the end of a call: what it gives back, and the external calls it made
Done(name, r) ==
    /\ pc' = "done"
    /\ op' = name
    /\ result' = [kind |-> r.kind, value |-> r.value, message |-> r.message]
    /\ effects' = r.effects
    /\ UNCHANGED <<environ, plat_spec, version, registry, fs, procs>>

Call_msvc14_get_vc_env ==
    /\ pc = "ready"
    /\ Done("msvc14_get_vc_env", msvc14_get_vc_env(plat_spec))

---------------------------------------------------------------------------
(* msvc14_get_vc_env on every host *)

Init ==
    /\ environ \in Environs
    /\ plat_spec \in {x86, x86_amd64}
    /\ version = 140
    /\ registry \in Registries({ NoVC7,
                                 [exists |-> TRUE, values |-> <<>>],
                                 [exists |-> TRUE, values |->
                                     <<VC7Entry(v14_0, VC14Dir, "REG_SZ")>>] })
    /\ fs \in FileSystems({{VC14Dir}, {VC14Dir, BuildDir}},
                          {join(BuildDir, vcvarsall_bat),
                           join(VC14Dir, vcvarsall_bat)})
    /\ procs \in { [vswhere |-> v, cmd |-> c, unpatched |-> u] :
                     v \in VswhereOutcomes, c \in CmdOutcomes,
                     u \in UnpatchedGetVcEnv }
    /\ Ready

Next == Call_msvc14_get_vc_env

Spec == Init /\ [][Next]_vars

---------------------------------------------------------------------------
(* The finders on every registry *)

\* "C:\VS9\vcvarsall.bat": what the unpatched find_vcvarsall may return
VS9_vcvarsall ==
    <<"C",":","\\","V","S","9","\\","v","c","v","a","r","s","a","l","l",".",
      "b","a","t">>

MaxEntries == 2

VC7Entries ==
    { VC7Entry(v14_0, VC14Dir, "REG_SZ"),
      VC7Entry(v14_0, VC15Dir, "REG_SZ"),
      VC7Entry(v15_0, VC15Dir, "REG_SZ"),
      VC7Entry(v15_0, VC14Dir, "REG_DWORD"),
      VC7Entry(v10_0, VC14Dir, "REG_SZ"),
      VC7Entry(v13_0, VC15Dir, "REG_SZ"),
      VC7Entry(bogus, VC15Dir, "REG_SZ") }

RECURSIVE SeqsUpTo(_, _)
SeqsUpTo(S, n) ==
    IF n = 0 THEN {<<>>}
    ELSE SeqsUpTo(S, n - 1)
         \cup { Append(s, x) : s \in SeqsUpTo(S, n - 1), x \in S }

\* the enumeration order 10, "bogus", 14, 13
VC7Example ==
    << VC7Entry(v10_0, VC14Dir, "REG_SZ"), VC7Entry(bogus, VC15Dir, "REG_SZ"),
       VC7Entry(v14_0, VC14Dir, "REG_SZ"), VC7Entry(v13_0, VC15Dir, "REG_SZ") >>

VC7Keys ==
    {NoVC7} \cup { [exists |-> TRUE, values |-> s] :
                     s \in SeqsUpTo(VC7Entries, MaxEntries) \cup {VC7Example} }

VCForPythonKey(wow, ver) ==
    vc_base_1 \o (IF wow THEN Wow6432Node ELSE <<>>) \o vc_base_2
        \o format_0_1f(ver)

VCForPythonKeys ==
    { NoVCForPython,
      [k \in {VCForPythonKey(FALSE, 90)} |-> VCPyDir],
      [k \in {VCForPythonKey(TRUE, 90)} |-> VCPyDir],
      [k \in {VCForPythonKey(FALSE, 90), VCForPythonKey(TRUE, 90)} |->
          IF k = VCForPythonKey(FALSE, 90) THEN <<>> ELSE VCPyDir],
      [k \in {VCForPythonKey(FALSE, 100)} |-> VCPyDir] }

UnpatchedFindVcvarsall ==
    { [kind |-> "return", value |-> None, message |-> None],
      [kind |-> "return", value |-> VS9_vcvarsall, message |-> None],
      [kind |-> "return", value |-> join(VCPyDir, vcvarsall_bat),
       message |-> None] }

InitFind9 ==
    /\ environ = <<<<DUMMY, one_str>>>>
    /\ plat_spec = x86
    /\ version \in {90, 100}
    /\ registry \in { [vc7 |-> NoVC7, vcforpython |-> k] : k \in VCForPythonKeys }
    /\ fs \in { [dirs |-> {VCPyDir}, files |-> f,
                 redist |-> [kind |-> "ok", list |-> <<>>]] :
                  f \in SUBSET {join(VCPyDir, vcvarsall_bat), VS9_vcvarsall} }
    /\ procs \in { [vswhere |-> [kind |-> "OSError", out |-> <<>>],
                    cmd |-> [kind |-> "output", out |-> out_plain],
                    unpatched |-> u] : u \in UnpatchedFindVcvarsall }
    /\ Ready

InitFind14 ==
    /\ environ \in { <<<<DUMMY, one_str>>>>,
                     <<<<DUMMY, one_str>>, <<upper(ProgramFiles), PF_Dir>>>> }
    /\ plat_spec = x86_amd64
    /\ version = 140
    /\ registry \in Registries(VC7Keys)
    /\ fs \in { [dirs |-> d, files |-> f \cup RedistFiles(r), redist |-> r] :
                  d \in {{VC14Dir, VC15Dir}, {VC14Dir, BuildDir}},
                  f \in SUBSET {join(BuildDir, vcvarsall_bat),
                                join(VC14Dir, vcvarsall_bat),
                                join(VC15Dir, vcvarsall_bat)},
                  r \in { [kind |-> "ok", list |-> <<>>],
                          [kind |-> "ok", list |-> <<RedistX64Old>>] } }
    /\ procs \in { [vswhere |-> v,
                    cmd |-> [kind |-> "output", out |-> out_plain],
                    unpatched |-> NoUnpatched] :
                     v \in { [kind |-> "OSError", out |-> <<>>],
                             [kind |-> "output", out |-> vswhere_VS] } }
    /\ Ready

InitFind == InitFind9 \/ InitFind14

Call_msvc9_find_vcvarsall ==
    /\ pc = "ready"
    /\ Done("msvc9_find_vcvarsall", msvc9_find_vcvarsall(version))

Call__msvc14_find_vc2015 ==
    /\ pc = "ready"
    /\ Done("_msvc14_find_vc2015", _msvc14_find_vc2015)

Call__msvc14_find_vcvarsall ==
    /\ pc = "ready"
    /\ Done("_msvc14_find_vcvarsall", _msvc14_find_vcvarsall(plat_spec))

NextFind ==
    \/ Call_msvc9_find_vcvarsall
    \/ Call__msvc14_find_vc2015
    \/ Call__msvc14_find_vcvarsall

SpecFind == InitFind /\ [][NextFind]_vars

---------------------------------------------------------------------------
(* The synthesizer on every output of cmd *)

MaxOutLen == 7

OutChars == {"A", "a", "=", "\n"}

\* "FOO=bar\nBAZ=\nQUX\n=empty\n"
out_example ==
    <<"F","O","O","=","b","a","r","\n","B","A","Z","=","\n","Q","U","X","\n",
      "=","e","m","p","t","y","\n">>
\* "A=a\r\nB=b=c\ra=\n"
out_crlf ==
    <<"A","=","a","\r","\n","B","=","b","=","c","\r","a","=","\n">>

Outputs == SeqsUpTo(OutChars, MaxOutLen) \cup {out_example, out_crlf, out_plain}

InitParse ==
    /\ environ = <<<<DUMMY, one_str>>, <<upper(ProgramFiles), PF_Dir>>>>
    /\ plat_spec = x86
    /\ version = 140
    /\ registry \in Registries({NoVC7})
    /\ fs = [dirs |-> {BuildDir}, files |-> {join(BuildDir, vcvarsall_bat)},
             redist |-> [kind |-> "ok", list |-> <<>>]]
    /\ procs \in { [vswhere |-> [kind |-> "output", out |-> vswhere_VS],
                    cmd |-> [kind |-> "output", out |-> o],
                    unpatched |-> NoUnpatched] : o \in Outputs }
    /\ Ready

Call__msvc14_get_vc_env ==
    /\ pc = "ready"
    /\ Done("_msvc14_get_vc_env", _msvc14_get_vc_env(plat_spec))

NextParse == Call__msvc14_get_vc_env

SpecParse == InitParse /\ [][NextParse]_vars

---------------------------------------------------------------------------
(* The resolver on every platform spec *)

MaxSpecLen == 6

SpecChars == {"a", "m", "d", "6", "4"}

\* "foo_amd64_bar", "foo", "x86_AMD64", "amd64_x86"
foo_amd64_bar ==
    <<"f","o","o","_","a","m","d","6","4","_","b","a","r">>
foo ==
    <<"f","o","o">>
x86_AMD64 ==
    <<"x","8","6","_","A","M","D","6","4">>
amd64_x86 ==
    <<"a","m","d","6","4","_","x","8","6">>

PlatSpecs ==
    SeqsUpTo(SpecChars, MaxSpecLen)
    \cup {x86, x86_amd64, x86_arm, x86_arm64, foo_amd64_bar, foo, x86_AMD64,
          amd64_x86}

\* one redistributable per runtime platform
RedistOf(plat) ==
    [sub |-> v14_28, plat |-> plat, crt |-> Microsoft_VC142_CRT, isfile |-> TRUE]

RedistEveryPlatform ==
    [kind |-> "ok",
     list |-> <<RedistOf(arm64), RedistOf(x86), RedistOf(arm), RedistOf(x64)>>]

InitPlat ==
    /\ environ = <<<<DUMMY, one_str>>, <<upper(ProgramFiles), PF_Dir>>>>
    /\ plat_spec \in PlatSpecs
    /\ version = 140
    /\ registry \in Registries({NoVC7})
    /\ fs = [dirs |-> {BuildDir},
             files |-> {join(BuildDir, vcvarsall_bat)}
                           \cup RedistFiles(RedistEveryPlatform),
             redist |-> RedistEveryPlatform]
    /\ procs = [vswhere |-> [kind |-> "output", out |-> vswhere_VS],
                cmd |-> [kind |-> "output", out |-> out_plain],
                unpatched |-> NoUnpatched]
    /\ Ready

NextPlat == Call__msvc14_find_vcvarsall

SpecPlat == InitPlat /\ [][NextPlat]_vars

---------------------------------------------------------------------------
(* The controllers on every failure of the unpatched functions *)

\* messages of the unpatched query_vcvarsall, and near misses
msg_was_not_found ==
    <<"P","y","t","h","o","n"," ","w","a","s"," ","b","u","i","l","t"," ","w",
      "i","t","h"," ","V","i","s","u","a","l"," ","S","t","u","d","i","o"," ",
      "2","0","0","8",";"," ","V","i","s","u","a","l"," ","S","t","u","d","i",
      "o"," ","2","0","0","8"," ","w","a","s"," ","n","o","t"," ","f","o","u",
      "n","d"," ","o","n"," ","t","h","i","s"," ","s","y","s","t","e","m",".">>
msg_VISUAL_C ==
    <<"M","I","C","R","O","S","O","F","T"," ","V","I","S","U","A","L"," ","C",
      "+","+"," ","9",".","0"," ","i","s"," ","m","i","s","s","i","n","g">>
msg_VCVarsAll ==
    <<"C",":","\\","V","S","9","\\","V","C","V","a","r","s","A","l","l",".",
      "b","a","t"," ","f","a","i","l","e","d">>
msg_cannot_find ==
    <<"T","h","e"," ","s","y","s","t","e","m"," ","c","a","n","n","o","t"," ",
      "f","i","n","d"," ","t","h","e"," ","p","a","t","h"," ","s","p","e","c",
      "i","f","i","e","d",".">>
msg_vcvarsal ==
    <<"v","c","v","a","r","s","a","l"," ","v","i","s","u","a","l","_","c">>
msg_not_supported ==
    <<"V","C"," ","9",".","0"," ","i","s"," ","n","o","t"," ","s","u","p","p",
      "o","r","t","e","d"," ","b","y"," ","t","h","i","s"," ","m","o","d","u",
      "l","e">>

Messages ==
    { Unable_to_find_vcvarsall, msg_was_not_found, msg_VISUAL_C, msg_VCVarsAll,
      msg_cannot_find, msg_vcvarsal, msg_not_supported, <<>> }

UnpatchedQueryVcvarsall ==
    { [kind |-> "return", value |-> parse_env(out_unpatched), message |-> None],
      [kind |-> "ValueError", value |-> None, message |-> msg_cannot_find] }
    \cup { [kind |-> DistutilsPlatformError, value |-> None, message |-> m] :
             m \in Messages }

InitAugment9 ==
    /\ environ = <<<<DUMMY, one_str>>>>
    /\ plat_spec = x86
    /\ version \in {80, 90, 100, 140, 141, 150}
    /\ registry \in Registries({NoVC7})
    /\ fs = [dirs |-> {}, files |-> {}, redist |-> [kind |-> "ok", list |-> <<>>]]
    /\ procs \in { [vswhere |-> [kind |-> "OSError", out |-> <<>>],
                    cmd |-> [kind |-> "output", out |-> out_plain],
                    unpatched |-> u] : u \in UnpatchedQueryVcvarsall }
    /\ Ready

InitAugment14 ==
    /\ environ \in { <<<<DUMMY, one_str>>>>,
                     <<<<DUMMY, one_str>>, <<upper(ProgramFiles), PF_Dir>>>> }
    /\ plat_spec \in {x86, x86_amd64}
    /\ version = 140
    /\ registry \in Registries({NoVC7, [exists |-> TRUE, values |-> <<>>]})
    /\ fs \in FileSystems({{BuildDir}}, {join(BuildDir, vcvarsall_bat)})
    /\ procs \in { [vswhere |-> v, cmd |-> c, unpatched |-> u] :
                     v \in VswhereOutcomes, c \in CmdOutcomes,
                     u \in UnpatchedGetVcEnv }
    /\ Ready

InitAugment == InitAugment9 \/ InitAugment14

Call_msvc9_query_vcvarsall ==
    /\ pc = "ready"
    /\ Done("msvc9_query_vcvarsall", msvc9_query_vcvarsall(version))

NextAugment == Call_msvc9_query_vcvarsall \/ Call_msvc14_get_vc_env

SpecAugment == InitAugment /\ [][NextAugment]_vars

---------------------------------------------------------------------------
(* What the claims speak of *)

Called(name) == pc = "done" /\ op = name

MarkerPresent == \E i \in DOMAIN environ : environ[i][1] = DISTUTILS_USE_SDK

PrimaryFailed == procs.unpatched.kind = DistutilsPlatformError

Made(call) == \E i \in DOMAIN effects : effects[i] = call

\* the process environment with its names lower-cased
IsLoweredEnviron(env) ==
    /\ DOMAIN env = {lower(environ[i][1]) : i \in DOMAIN environ}
    /\ \A i \in DOMAIN environ : env[lower(environ[i][1])] = environ[i][2]
    /\ env[<<"d","u","m","m","y">>] = one_str

\* int(float(v)) of a registry value name; -1 where float(v) raises
RECURSIVE DigitsValue(_)
DigitsValue(s) ==
    IF s = <<>> THEN 0
    ELSE 10 * DigitsValue(SubSeq(s, 1, Len(s) - 1))
         + (CHOOSE d \in 0..9 : Digit(d) = s[Len(s)])

IsDigits(s) == s # <<>> /\ \A i \in DOMAIN s : \E d \in 0..9 : Digit(d) = s[i]

IntFloat(v) ==
    IF IsDigits(v) THEN DigitsValue(v)
    ELSE IF \E i \in DOMAIN v :
               /\ v[i] = "."
               /\ IsDigits(SubSeq(v, 1, i - 1))
               /\ IsDigits(SubSeq(v, i + 1, Len(v)))
    THEN DigitsValue(SubSeq(v, 1, (CHOOSE i \in DOMAIN v : v[i] = ".") - 1))
    ELSE -1

\* the VC7 entries the versioned registry enumeration is meant to accept
UsableVC7 ==
    { i \in DOMAIN registry.vc7.values :
        /\ registry.vc7.exists
        /\ registry.vc7.values[i].name # <<>>
        /\ registry.vc7.values[i].type = "REG_SZ"
        /\ registry.vc7.values[i].data \in fs.dirs
        /\ IntFloat(registry.vc7.values[i].name) >= 14 }

\* the installation vswhere.exe reports, when there is one
VswhereRoot ==
    /\ \E i \in DOMAIN environ :
           environ[i][1] \in {upper(ProgramFiles), upper(ProgramFilesX86)}
           /\ environ[i][2] # <<>>
    /\ procs.vswhere.kind = "output"
    /\ procs.vswhere.out = vswhere_VS
    /\ BuildDir \in fs.dirs

\* the redistributable the resolver computes for the vswhere installation
ComputedRedist ==
    IF VswhereRoot /\ fs.redist.kind = "ok"
       /\ glob(BuildDir, vcruntime_plat(plat_spec)) # <<>>
    THEN glob(BuildDir, vcruntime_plat(plat_spec))[
             Len(glob(BuildDir, vcruntime_plat(plat_spec)))]
    ELSE None

RedistOnDisk == ComputedRedist # None /\ ComputedRedist \in fs.files

\* the output lines that name the redistributable key themselves
OutputNamesRedist ==
    \E i \in DOMAIN splitlines(procs.cmd.out) :
        /\ lower(partition(splitlines(procs.cmd.out)[i])[1]) = py_vcruntime_redist
        /\ partition(splitlines(procs.cmd.out)[i])[3] # <<>>

\* a map the synthesizer built from the output of cmd
Synthesized ==
    Called("msvc14_get_vc_env") /\ result.kind = "return" /\ Made("cmd")

---------------------------------------------------------------------------
(* Claims about msvc14_get_vc_env *)

\* C1 as stated: with DISTUTILS_USE_SDK in the environment msvc14_get_vc_env
\* returns the process environment with lower-cased keys as its first step,
\* with no primary attempt, no discovery and no subprocess.
C1_OverrideIsFirstStep ==
    (Called("msvc14_get_vc_env") /\ MarkerPresent) =>
        /\ effects = <<>>
        /\ result.kind = "return"
        /\ IsLoweredEnviron(result.value)

\* C1 amended: msvc14_get_vc_env always makes the primary attempt first and
\* returns its result when it succeeds; with DISTUTILS_USE_SDK in the
\* environment and the primary attempt failed with DistutilsPlatformError it
\* returns the process environment with lower-cased keys, and nothing but the
\* primary attempt was performed: no vswhere, no registry, no glob, no cmd.
C1_OverrideAfterPrimary ==
    (Called("msvc14_get_vc_env") /\ MarkerPresent) =>
        /\ effects = <<"unpatched">>
        /\ PrimaryFailed =>
               result.kind = "return" /\ IsLoweredEnviron(result.value)
        /\ procs.unpatched.kind = "return" =>
               result.kind = "return" /\ result.value = procs.unpatched.value

C1_Witness ==
    /\ Called("msvc14_get_vc_env")
    /\ MarkerPresent
    /\ PrimaryFailed
    /\ result.kind = "return"
    /\ VswhereRoot
    /\ UsableVC7 # {}

\* C2 as stated: marker absent, primary attempt failed, no installation root
\* discoverable: msvc14_get_vc_env fails with DistutilsPlatformError and the
\* message that reaches the caller contains "vcvarsall".
C2_NoRootMessage ==
    (/\ Called("msvc14_get_vc_env")
     /\ ~MarkerPresent
     /\ PrimaryFailed
     /\ ~VswhereRoot
     /\ UsableVC7 = {}) =>
        /\ result.kind = DistutilsPlatformError
        /\ Contains(vcvarsall_word, result.message)

\* C3 as stated: when cmd exits non-zero, the DistutilsPlatformError that
\* msvc14_get_vc_env delivers carries the failing command line.
C3_CommandLineInMessage ==
    (/\ Called("msvc14_get_vc_env")
     /\ Made("cmd")
     /\ procs.cmd.kind = "CalledProcessError") =>
        /\ result.kind = DistutilsPlatformError
        /\ \E script \in fs.files :
               Contains(cmd_u_c_quote \o script \o quote_space \o plat_spec
                            \o and_set,
                        result.message)

\* C8 as stated: the synthesized map has the key py_vcruntime_redist only when
\* a redistributable path was computed and is a file, and then with that path
\* as its value; a missing redistributable never makes the call fail.
C8_RedistKeyOnlyFromDisk ==
    /\ Synthesized =>
           /\ (py_vcruntime_redist \in DOMAIN result.value) <=> RedistOnDisk
           /\ RedistOnDisk => result.value[py_vcruntime_redist] = ComputedRedist
    /\ (/\ Called("msvc14_get_vc_env")
        /\ Made("cmd")
        /\ procs.cmd.kind = "output") => result.kind = "return"

\* C8 amended: the synthesizer sets the key py_vcruntime_redist exactly when a
\* redistributable path was computed and is a file, and then to that path;
\* otherwise the map has the key only if an output line of cmd itself names
\* it (case-insensitively) with a non-empty value.  A missing
\* redistributable never makes the call fail.
C8_RedistKeyFromDiskOrOutput ==
    /\ Synthesized =>
           /\ (py_vcruntime_redist \in DOMAIN result.value)
                  <=> (RedistOnDisk \/ OutputNamesRedist)
           /\ RedistOnDisk => result.value[py_vcruntime_redist] = ComputedRedist
           /\ ~RedistOnDisk =>
                  result.value = parse_env(procs.cmd.out)
    /\ (/\ Called("msvc14_get_vc_env")
        /\ Made("cmd")
        /\ procs.cmd.kind = "output") => result.kind = "return"

C8_Witness ==
    /\ Synthesized
    /\ ComputedRedist # None
    /\ ~RedistOnDisk
    /\ py_vcruntime_redist \notin DOMAIN result.value

---------------------------------------------------------------------------
(* Claims about the finders *)

VC7Version(i) == IntFloat(registry.vc7.values[i].name)

\* the entry the versioned registry enumeration is meant to select: the
\* highest version, the first enumerated among equals
BestVC7 ==
    CHOOSE i \in UsableVC7 :
        \A j \in UsableVC7 :
            \/ VC7Version(j) < VC7Version(i)
            \/ VC7Version(j) = VC7Version(i) /\ i <= j

\* C4 as stated: whenever the versioned registry enumeration would yield a
\* directory that holds vcvarsall.bat, _msvc14_find_vcvarsall returns a script
\* path, whatever vswhere reported.
C4_RegistryRouteAlwaysTried ==
    (/\ Called("_msvc14_find_vcvarsall")
     /\ UsableVC7 # {}
     /\ join(registry.vc7.values[BestVC7].data, vcvarsall_bat) \in fs.files) =>
        result.kind = "return" /\ result.value[1] # None

\* C5: a script path that msvc9_find_vcvarsall returns from its own registry
\* branch, and every script path _msvc14_find_vcvarsall returns, is a
\* vcvarsall.bat that is a file; a root the registry or vswhere names whose
\* vcvarsall.bat is missing is never returned.
C5_ScriptIsOnDisk ==
    /\ (/\ Called("msvc9_find_vcvarsall")
        /\ result.kind = "return"
        /\ ~Made("unpatched")) =>
           result.value \in fs.files /\ EndsWith(result.value, vcvarsall_bat)
    /\ (/\ Called("msvc9_find_vcvarsall")
        /\ \A k \in DOMAIN registry.vcforpython :
               join(registry.vcforpython[k], vcvarsall_bat) \notin fs.files) =>
           Made("unpatched")
    /\ (/\ Called("_msvc14_find_vcvarsall")
        /\ result.kind = "return"
        /\ result.value[1] # None) =>
           result.value[1] \in fs.files /\ EndsWith(result.value[1], vcvarsall_bat)

C5_Witness ==
    /\ Called("_msvc14_find_vcvarsall")
    /\ VswhereRoot
    /\ join(BuildDir, vcvarsall_bat) \notin fs.files
    /\ result.kind = "return"
    /\ result.value[1] = None

\* C6 as stated: for every sequence of value entries of the VC7 key,
\* _msvc14_find_vc2015 returns the version and directory of the entry with
\* the highest integer version >= 14 among the entries of string type with
\* an existing directory and a numeric name, the first enumerated among
\* equals; entries below 14 or with a non-numeric name are ignored.
C6_HighestVersionSelected ==
    (Called("_msvc14_find_vc2015") /\ registry.vc7.exists) =>
        /\ result.kind = "return"
        /\ UsableVC7 # {} =>
               result.value = [version |-> VC7Version(BestVC7),
                               dir |-> registry.vc7.values[BestVC7].data]
        /\ UsableVC7 = {} =>
               result.value = [version |-> 0, dir |-> None]

---------------------------------------------------------------------------
(* Claims about the synthesizer's parsing *)

OutLines == splitlines(procs.cmd.out)

HasEq(line) == \E i \in DOMAIN line : line[i] = "="

FirstEq(line) ==
    CHOOSE i \in DOMAIN line : line[i] = "=" /\ \A j \in 1..(i - 1) : line[j] # "="

NameOf(line) == SubSeq(line, 1, FirstEq(line) - 1)

ValueOf(line) == SubSeq(line, FirstEq(line) + 1, Len(line))

\* the lines with an '=', a non-empty name before it and a non-empty value
\* after it
Qualifying ==
    { i \in DOMAIN OutLines :
        /\ HasEq(OutLines[i])
        /\ NameOf(OutLines[i]) # <<>>
        /\ ValueOf(OutLines[i]) # <<>> }

Parsed == Called("_msvc14_get_vc_env") /\ result.kind = "return"

\* C7 as stated: the map has exactly one entry per qualifying output line,
\* keyed by the lower-cased name.
C7_OneEntryPerLine ==
    Parsed =>
        /\ Cardinality(DOMAIN result.value) = Cardinality(Qualifying)
        /\ \A i \in Qualifying :
               /\ lower(NameOf(OutLines[i])) \in DOMAIN result.value
               /\ result.value[lower(NameOf(OutLines[i]))] = ValueOf(OutLines[i])

\* C7 amended: the keys of the map are exactly the lower-cased names of the
\* qualifying output lines, one entry per distinct lower-cased name, and the
\* value of a key is the value of the last qualifying line of that name;
\* lines with no '=', an empty name or an empty value contribute nothing
\* ("FOO=bar\nBAZ=\nQUX\n=empty\n" gives exactly {foo: "bar"}).
C7_OneEntryPerName ==
    Parsed =>
        /\ DOMAIN result.value = {lower(NameOf(OutLines[i])) : i \in Qualifying}
        /\ \A i \in Qualifying :
               (\A j \in Qualifying :
                    lower(NameOf(OutLines[j])) = lower(NameOf(OutLines[i]))
                        => j <= i)
               => result.value[lower(NameOf(OutLines[i]))] = ValueOf(OutLines[i])
        /\ procs.cmd.out = out_example =>
               result.value = [k \in {<<"f", "o", "o">>} |-> <<"b", "a", "r">>]

C7_Witness ==
    /\ Parsed
    /\ Cardinality(Qualifying) = 2
    /\ Cardinality(DOMAIN result.value) = 1

---------------------------------------------------------------------------
(* Claims about the runtime platform *)

HasAmd64(s) ==
    \E i \in 1..(Len(s) - 4) :
        /\ s[i] = "a"
        /\ s[i + 1] = "m"
        /\ s[i + 2] = "d"
        /\ s[i + 3] = "6"
        /\ s[i + 4] = "4"

ExpectedPlatform(s) ==
    CASE s = <<"x", "8", "6">> -> <<"x", "8", "6">>
      [] s = <<"x", "8", "6", "_", "a", "m", "d", "6", "4">> -> <<"x", "6", "4">>
      [] s = <<"x", "8", "6", "_", "a", "r", "m">> -> <<"a", "r", "m">>
      [] s = <<"x", "8", "6", "_", "a", "r", "m", "6", "4">> ->
             <<"a", "r", "m", "6", "4">>
      [] OTHER -> IF HasAmd64(s) THEN <<"x", "6", "4">> ELSE <<"x", "8", "6">>

\* C9: the runtime platform derived from a platform spec is the table value
\* for x86, x86_amd64, x86_arm and x86_arm64, and for every other string x64
\* if and only if the string contains "amd64", else x86; the derivation never
\* fails.  The resolver shows it in the redistributable it picks.
C9_RuntimePlatform ==
    Called("_msvc14_find_vcvarsall") =>
        /\ result.kind = "return"
        /\ result.value[2] = RedistPath(BuildDir, RedistOf(ExpectedPlatform(plat_spec)))

C9_Witness ==
    /\ Called("_msvc14_find_vcvarsall")
    /\ plat_spec \notin {x86, x86_amd64, x86_arm, x86_arm64}
    /\ HasAmd64(plat_spec)
    /\ result.value[2] = RedistPath(BuildDir, RedistOf(x64))

---------------------------------------------------------------------------
(* Claims about the failure messages *)

\* "aka.ms/vcpython27"
link_vcpython27 ==
    <<"a","k","a",".","m","s","/","v","c","p","y","t","h","o","n","2","7">>
\* "visualstudio.microsoft.com/downloads"
link_build_tools ==
    <<"v","i","s","u","a","l","s","t","u","d","i","o",".","m","i","c","r","o",
      "s","o","f","t",".","c","o","m","/","d","o","w","n","l","o","a","d","s">>

Controller == op \in {"msvc9_query_vcvarsall", "msvc14_get_vc_env"}

Requested == IF op = "msvc9_query_vcvarsall" THEN version ELSE 140

Failed == pc = "done" /\ Controller /\ result.kind = DistutilsPlatformError

\* C10 as stated: every DistutilsPlatformError a controller delivers carries
\* the remediation guidance of the requested family, whatever the original
\* message and the requested version.
C10_GuidanceAlways ==
    Failed =>
        /\ Requested = 90 => Contains(link_vcpython27, result.message)
        /\ Requested >= 140 => Contains(link_build_tools, result.message)

\* C10 amended: the message is rewritten only when the original message
\* contains "vcvarsall" or "visual c" (case-insensitively); it then reads
\* "Microsoft Visual C++ <version> is required." followed by the vcpython27
\* link for 9.0, by the build-tools page for versions >= 14.0, and by nothing
\* for any other version.  Any other message is delivered unchanged.  The
\* failures msvc14_get_vc_env delivers from its own synthesizer always carry
\* the build-tools page.
C10_GuidanceWhenMentioned ==
    /\ (Failed /\ op = "msvc9_query_vcvarsall") =>
           IF \/ Contains(vcvarsall_word, lower(procs.unpatched.message))
              \/ Contains(visual_c_word, lower(procs.unpatched.message))
           THEN /\ StartsWith(result.message,
                              Microsoft_Visual_Cpp \o format_0_1f(version)
                                  \o is_required)
                /\ Contains(link_vcpython27, result.message) <=> version = 90
                /\ Contains(link_build_tools, result.message) <=> version >= 140
           ELSE result.message = procs.unpatched.message
    /\ (Failed /\ op = "msvc14_get_vc_env") =>
           /\ StartsWith(result.message,
                         Microsoft_Visual_Cpp \o <<"1", "4", ".", "0">> \o is_required)
           /\ Contains(link_build_tools, result.message)

C10_Witness ==
    /\ Failed
    /\ op = "msvc9_query_vcvarsall"
    /\ version = 90
    /\ procs.unpatched.message = msg_cannot_find
    /\ result.message = msg_cannot_find

=============================================================================
